---- MODULE Spec2Model ----
(***************************************************************************)
(* Model of plagdef's preprocessing stage                                  *)
(* (src/plagdef/model/preprocessing.py): Preprocessor.preprocess,          *)
(* Preprocessor._preprocess, Preprocessor._join_small_sentences, _to_words *)
(* and _sent_contains_words_of_common_sent, together with the parts of     *)
(* Document / Sentence / Word (plagdef.model.models) they use.             *)
(*                                                                         *)
(* A Sentence is a record [start_char, end_char, bow, words, common]; bow  *)
(* is a bag (collections.Counter); a Word is [start_char, end_char, text]; *)
(* a Document is its sorted sentence list doc_sents[d] and its Counter     *)
(* vocab[d].  The tagger (stanza pipeline) is the external collaborator:   *)
(* its output for a document is drawn when the document is parsed.         *)
(***************************************************************************)
EXTENDS Integers, Sequences, FiniteSets, Bags, TLC

VARIABLES
    min_sent_len,       \* Preprocessor._min_sent_len
    rem_stop_words,     \* Preprocessor._rem_stop_words
    common_docs,        \* argument common_docs: sequence of document names
    docs,               \* argument docs: sequence of document names
    alphabet,           \* the token kinds the corpus texts are written in
    budget,             \* tokens the remaining texts may still contain
    parsed,             \* per document: what nlp_model(doc.text) did
    doc_sents,          \* Document._sents, ordered by start_char
    vocab,              \* Document.vocab (Counter: lemma -> sentence frequency)
    common_sent_words,  \* local common_sent_words of preprocess
    built,              \* per document: sentences and vocab when construction ended
    pc,                 \* position of preprocess
    common_idx,         \* loop index of the common-document loop (line 32)
    doc_idx,            \* loop index of the primary-document loop (line 36)
    idx,                \* _join_small_sentences: idx
    sent_count,         \* _join_small_sentences: sent_count
    examined            \* pairs examined by the running merge pass

vars == <<min_sent_len, rem_stop_words, common_docs, docs, alphabet, budget,
          parsed, doc_sents, vocab, common_sent_words, built, pc, common_idx,
          doc_idx, idx, sent_count, examined>>

(***************************************************************************)
(* Bounds of the model.                                                    *)
(***************************************************************************)
MaxTokens == 4
MaxCorpusTokens == 3
MaxScenarioTokens == 7
MaxLastShortTokens == 11
MaxMinSentLen == 3

(***************************************************************************)
(* Tagger vocabulary: a token kind is a surface text and the words the     *)
(* tagger gives for it (text, lemma, universal part-of-speech tag).        *)
(***************************************************************************)
KPunct == [text |-> ".", words |-> <<[text |-> ".", lemma |-> ".", upos |-> "PUNCT"]>>]
KThe == [text |-> "The", words |-> <<[text |-> "The", lemma |-> "the", upos |-> "DET"]>>]
KCat == [text |-> "cat", words |-> <<[text |-> "cat", lemma |-> "cat", upos |-> "NOUN"]>>]

Kinds == {KPunct, KThe, KCat}
ScenarioKinds == {KCat}
Lemmas == {"the", "cat"}
DocNames == {"c1", "c2", "d1", "d2"}

\* stopwords.ENGLISH, restricted to the tagger vocabulary
StopWords == {"the"}

\* str.lower on the surface texts of the vocabulary
Lower(t) == IF t = "The" THEN "the" ELSE t

(***************************************************************************)
(* The tagger.  A text of m tokens is a token sequence and the set of      *)
(* positions after which a sentence ends; token i occupies the character   *)
(* range [2(i-1), 2i-1), so that consecutive tokens are one character      *)
(* apart.  nlp_model(text).sentences is a sequence of tagged sentences,    *)
(* each with its tokens; a token carries its offsets and its words.        *)
(***************************************************************************)
Token(toks, i) ==
    [start_char |-> 2 * (i - 1), end_char |-> 2 * i - 1,
     text |-> toks[i].text, words |-> toks[i].words]

TaggedDoc(toks, cuts) ==
    LET m == Len(toks)
        starts == {1} \cup {c + 1 : c \in cuts}
        ends == cuts \cup {m}
        first(k) == CHOOSE s \in starts : Cardinality({x \in starts : x < s}) = k - 1
        last(k) == CHOOSE e \in ends : Cardinality({x \in ends : x < e}) = k - 1
    IN  [k \in 1..Cardinality(starts) |->
            [tokens |-> [j \in 1..(last(k) - first(k) + 1) |-> Token(toks, first(k) + j - 1)]]]

TaggerOutputs(kinds, n) ==
    {<<>>} \cup
    UNION {{TaggedDoc(toks, cuts) : toks \in [1..m -> kinds], cuts \in SUBSET (1..(m - 1))}
           : m \in 1..n}

RECURSIVE Flatten(_)
Flatten(seqs) == IF seqs = <<>> THEN <<>> ELSE Head(seqs) \o Flatten(Tail(seqs))

\* stanza Sentence.words: the words of all tokens of the sentence, in order
SentWords(sent) == Flatten([j \in 1..Len(sent.tokens) |-> sent.tokens[j].words])

TokenCount(tagged) == Len(Flatten([k \in 1..Len(tagged) |-> tagged[k].tokens]))

(***************************************************************************)
(* collections.Counter                                                     *)
(***************************************************************************)
RECURSIVE Counter(_)
Counter(seq) ==
    IF seq = <<>> THEN EmptyBag ELSE Counter(Tail(seq)) (+) SetToBag({Head(seq)})

Keys(bow) == BagToSet(bow)

\* sum(bow.values())
SumValues(bow) == BagCardinality(bow)

\* Counter.__getitem__: a missing key reads as 0
VocabGet(voc, lemma) == IF lemma \in DOMAIN voc THEN voc[lemma] ELSE 0

(***************************************************************************)
(* plagdef.model.models: Document.add_sent / remove_sent on the SortedSet  *)
(* keyed by start_char, Sentence(...) with common defaulting to False,     *)
(* Word(...) whose text is the document text at its offsets.               *)
(***************************************************************************)
Sentence(start_char, end_char, bow) ==
    [start_char |-> start_char, end_char |-> end_char, bow |-> bow,
     words |-> <<>>, common |-> FALSE]

Word(token) ==
    [start_char |-> token.start_char, end_char |-> token.end_char, text |-> token.text]

AddSent(sents, sent) ==
    IF \E i \in 1..Len(sents) : sents[i] = sent THEN sents
    ELSE LET k == Cardinality({i \in 1..Len(sents) : sents[i].start_char <= sent.start_char})
         IN  SubSeq(sents, 1, k) \o <<sent>> \o SubSeq(sents, k + 1, Len(sents))

RemoveSent(sents, sent) == SelectSeq(sents, LAMBDA x : x # sent)

(***************************************************************************)
(* _to_words (lines 91-97)                                                 *)
(***************************************************************************)
\* mutant: the test of line 95 is dropped, punctuation becomes a Word
TokenWordsWithPunct(token) == [j \in 1..Len(token.words) |-> Word(token)]

TokenWords(token) ==
    LET kept == SelectSeq(token.words, LAMBDA w : ~(w.upos = "PUNCT"))
    IN  [j \in 1..Len(kept) |-> Word(token)]

ToWords(stanza_tokens) ==
    Flatten([i \in 1..Len(stanza_tokens) |-> TokenWords(stanza_tokens[i])])

(***************************************************************************)
(* _sent_contains_words_of_common_sent (lines 100-105)                     *)
(***************************************************************************)
\* mutant: any() where line 103 has all()
SentContainsSomeWordOfCommonSent(sent_words, csw) ==
    LET sent_word_texts == {sent_words[k].text : k \in 1..Len(sent_words)}
    IN  \E i \in 1..Len(csw) :
            \E j \in 1..Len(csw[i]) : csw[i][j].text \in sent_word_texts

SentContainsWordsOfCommonSent(sent_words, csw) ==
    LET sent_word_texts == {sent_words[k].text : k \in 1..Len(sent_words)}
    IN  \E i \in 1..Len(csw) :
            \A j \in 1..Len(csw[i]) : csw[i][j].text \in sent_word_texts

(***************************************************************************)
(* Preprocessor._preprocess, lines 42-57: the construction loop            *)
(***************************************************************************)
NonPunctWords(sent) == SelectSeq(SentWords(sent), LAMBDA w : ~(w.upos = "PUNCT"))

SentLemmas(sent, rem) ==
    LET kept == IF rem
                THEN SelectSeq(NonPunctWords(sent), LAMBDA w : Lower(w.text) \notin StopWords)
                ELSE NonPunctWords(sent)
    IN  [j \in 1..Len(kept) |-> kept[j].lemma]

\* mutant: the span is taken from the first and last word that is kept
NewSentenceSpanOfWords(sent, lemma_count, csw) ==
    LET words == ToWords(sent.tokens)
        sentence == Sentence(words[1].start_char, words[Len(words)].end_char, lemma_count)
    IN  [sentence EXCEPT !.words = words,
                         !.common = SentContainsWordsOfCommonSent(words, csw)]

NewSentence(sent, lemma_count, csw) ==
    LET sentence == Sentence(sent.tokens[1].start_char,
                             sent.tokens[Len(sent.tokens)].end_char, lemma_count)
        words == ToWords(sent.tokens)
    IN  [sentence EXCEPT !.words = words,
                         !.common = SentContainsWordsOfCommonSent(words, csw)]

VocabAdd(voc, lemma_count) ==
    [l \in DOMAIN voc \cup Keys(lemma_count) |->
        VocabGet(voc, l) + (IF l \in Keys(lemma_count) THEN 1 ELSE 0)]

\* mutant: the test of line 48 is dropped, an empty lemma list makes a Sentence
RECURSIVE PreprocessSentsNoSkip(_, _, _, _, _, _)
PreprocessSentsNoSkip(sents, sent_idx, acc_sents, acc_vocab, csw, rem) ==
    IF sent_idx > Len(sents) THEN [sents |-> acc_sents, vocab |-> acc_vocab]
    ELSE LET sent == sents[sent_idx]
             lemma_count == Counter(SentLemmas(sent, rem))
             sentence == NewSentence(sent, lemma_count, csw)
         IN  PreprocessSentsNoSkip(sents, sent_idx + 1, AddSent(acc_sents, sentence),
                                   IF sentence.common THEN acc_vocab
                                   ELSE VocabAdd(acc_vocab, lemma_count),
                                   csw, rem)

RECURSIVE PreprocessSents(_, _, _, _, _, _)
PreprocessSents(sents, sent_idx, acc_sents, acc_vocab, csw, rem) ==
    IF sent_idx > Len(sents) THEN [sents |-> acc_sents, vocab |-> acc_vocab]
    ELSE LET sent == sents[sent_idx]
             sent_lemmas == SentLemmas(sent, rem)
         IN  IF Len(sent_lemmas) = 0
             THEN PreprocessSents(sents, sent_idx + 1, acc_sents, acc_vocab, csw, rem)
             ELSE LET lemma_count == Counter(sent_lemmas)
                      sentence == NewSentence(sent, lemma_count, csw)
                  IN  PreprocessSents(sents, sent_idx + 1, AddSent(acc_sents, sentence),
                                      IF sentence.common THEN acc_vocab
                                      ELSE VocabAdd(acc_vocab, lemma_count),
                                      csw, rem)

(***************************************************************************)
(* Preprocessor._join_small_sentences, lines 65-75: one pair               *)
(***************************************************************************)
\* sents[-1]
LastSent(sents) == sents[Len(sents)]

\* mutant: the clause of line 68 about a short last sentence is missing
MergeEligibleFirstShort(sent1, sent2, sents, min_len) ==
    /\ ~sent1.common /\ ~sent2.common
    /\ SumValues(sent1.bow) < min_len

\* mutant: "and" where line 67 has "or"
MergeEligibleBothShort(sent1, sent2, sents, min_len) ==
    /\ ~sent1.common /\ ~sent2.common
    /\ SumValues(sent1.bow) < min_len
    /\ (sent2 = LastSent(sents) /\ SumValues(sent2.bow) < min_len)

MergeEligible(sent1, sent2, sents, min_len) ==
    /\ ~sent1.common /\ ~sent2.common
    /\ \/ SumValues(sent1.bow) < min_len
       \/ (sent2 = LastSent(sents) /\ SumValues(sent2.bow) < min_len)

\* mutant: the test "lemma in sent2.bow" of line 70 is dropped
VocabAfterJoinEveryLemma(voc, sent1, sent2) ==
    LET every == Keys(sent1.bow)
    IN  [l \in DOMAIN voc \cup every |-> VocabGet(voc, l) - (IF l \in every THEN 1 ELSE 0)]

VocabAfterJoin(voc, sent1, sent2) ==
    LET both == Keys(sent1.bow) \cap Keys(sent2.bow)
    IN  [l \in DOMAIN voc \cup both |-> VocabGet(voc, l) - (IF l \in both THEN 1 ELSE 0)]

\* mutant: the joined sentence takes the bag of the first sentence alone
JoinedSentFirstBag(sent1, sent2) ==
    [Sentence(sent1.start_char, sent2.end_char, sent1.bow)
        EXCEPT !.words = sent1.words \o sent2.words]

\* mutant: the joined sentence ends where the first sentence ends
JoinedSentFirstEnd(sent1, sent2) ==
    [Sentence(sent1.start_char, sent1.end_char, sent1.bow (+) sent2.bow)
        EXCEPT !.words = sent1.words \o sent2.words]

JoinedSent(sent1, sent2) ==
    [Sentence(sent1.start_char, sent2.end_char, sent1.bow (+) sent2.bow)
        EXCEPT !.words = sent1.words \o sent2.words]

\* mutant: after a merge the scan stays at the same index
NextIdxStayOnMerge(i, merged) == IF merged THEN i ELSE i + 1

\* mutant: "idx += 1" indented into the if of line 66
NextIdxOnlyOnMerge(i, merged) == IF merged THEN i + 1 ELSE i

\* line 77, run in every iteration whether or not the pair was merged
NextIdx(i, merged) == i + 1

SentsAfterJoin(sents, sent1, sent2) ==
    AddSent(RemoveSent(RemoveSent(sents, sent1), sent2), JoinedSent(sent1, sent2))

(***************************************************************************)
(* Preprocessor.preprocess (lines 26-38) as a state machine                *)
(***************************************************************************)
NotParsed == [status |-> "none", sentences |-> <<>>]
EmptyVocab == <<>>
NoDoc == [sents |-> <<>>, vocab |-> EmptyVocab]

InitWith(cds, ds, kinds, n) ==
    /\ min_sent_len \in 1..MaxMinSentLen
    /\ rem_stop_words \in BOOLEAN
    /\ common_docs \in cds
    /\ docs \in ds
    /\ alphabet = kinds
    /\ budget = n
    /\ parsed = [d \in DocNames |-> NotParsed]
    /\ doc_sents = [d \in DocNames |-> <<>>]
    /\ vocab = [d \in DocNames |-> EmptyVocab]
    /\ common_sent_words = <<>>
    /\ built = [d \in DocNames |-> NoDoc]
    /\ pc = "common"
    /\ common_idx = 0
    /\ doc_idx = 0
    /\ idx = 0
    /\ sent_count = 0
    /\ examined = 0

Init == InitWith({<<>>, <<"c1">>}, {<<"d1">>}, Kinds, MaxTokens)

InitCorpus == InitWith({<<"c1", "c2">>}, {<<"d1", "d2">>}, Kinds, MaxCorpusTokens)

InitScenario == InitWith({<<>>, <<"c1">>}, {<<"d1">>}, ScenarioKinds, MaxScenarioTokens)

\* line 31/32: nlp_model(common_doc.text) raises
CommonTaggerRaises ==
    /\ pc = "common" /\ common_idx < Len(common_docs)
    /\ parsed' = [parsed EXCEPT ![common_docs[common_idx + 1]] =
                     [status |-> "raised", sentences |-> <<>>]]
    /\ pc' = "raised"
    /\ UNCHANGED <<min_sent_len, rem_stop_words, common_docs, docs, alphabet, budget,
                   doc_sents, vocab, common_sent_words, built, common_idx, doc_idx,
                   idx, sent_count, examined>>

\* lines 32-33: one common document, with no reference list and no merge pass
PreprocessCommonDoc ==
    /\ pc = "common" /\ common_idx < Len(common_docs)
    /\ \E out \in TaggerOutputs(alphabet, budget) :
        LET d == common_docs[common_idx + 1]
            res == PreprocessSents(out, 1, doc_sents[d], vocab[d], <<>>, rem_stop_words)
        IN  /\ parsed' = [parsed EXCEPT ![d] = [status |-> "ok", sentences |-> out]]
            /\ budget' = budget - TokenCount(out)
            /\ doc_sents' = [doc_sents EXCEPT ![d] = res.sents]
            /\ vocab' = [vocab EXCEPT ![d] = res.vocab]
            /\ built' = [built EXCEPT ![d] = res]
    /\ common_idx' = common_idx + 1
    /\ UNCHANGED <<min_sent_len, rem_stop_words, common_docs, docs, alphabet,
                   common_sent_words, pc, doc_idx, idx, sent_count, examined>>

\* mutant: the reference list is taken from the first common document alone
CommonSentWordsFirstDoc(cds, sents_of) ==
    IF cds = <<>> THEN <<>>
    ELSE [k \in 1..Len(sents_of[cds[1]]) |-> sents_of[cds[1]][k].words]

\* lines 34-35
CommonSentWords(cds, sents_of) ==
    Flatten([i \in 1..Len(cds) |->
                [k \in 1..Len(sents_of[cds[i]]) |-> sents_of[cds[i]][k].words]])

CollectCommonSentWords ==
    /\ pc = "common" /\ common_idx = Len(common_docs)
    /\ common_sent_words' = CommonSentWords(common_docs, doc_sents)
    /\ pc' = "docs"
    /\ UNCHANGED <<min_sent_len, rem_stop_words, common_docs, docs, alphabet, budget,
                   parsed, doc_sents, vocab, built, common_idx, doc_idx, idx,
                   sent_count, examined>>

\* line 37: nlp_model(docs[idx].text) raises; nothing in preprocess catches it
DocTaggerRaises ==
    /\ pc = "docs" /\ doc_idx < Len(docs)
    /\ parsed' = [parsed EXCEPT ![docs[doc_idx + 1]] =
                     [status |-> "raised", sentences |-> <<>>]]
    /\ pc' = "raised"
    /\ UNCHANGED <<min_sent_len, rem_stop_words, common_docs, docs, alphabet, budget,
                   doc_sents, vocab, common_sent_words, built, common_idx, doc_idx,
                   idx, sent_count, examined>>

\* lines 37-38, 42-59, 62-63: construction of one primary document, then entry
\* into _join_small_sentences
PreprocessDoc ==
    /\ pc = "docs" /\ doc_idx < Len(docs)
    /\ \E out \in TaggerOutputs(alphabet, budget) :
        LET d == docs[doc_idx + 1]
            res == PreprocessSents(out, 1, doc_sents[d], vocab[d], common_sent_words,
                                   rem_stop_words)
        IN  /\ parsed' = [parsed EXCEPT ![d] = [status |-> "ok", sentences |-> out]]
            /\ budget' = budget - TokenCount(out)
            /\ doc_sents' = [doc_sents EXCEPT ![d] = res.sents]
            /\ vocab' = [vocab EXCEPT ![d] = res.vocab]
            /\ built' = [built EXCEPT ![d] = res]
            /\ sent_count' = Len(res.sents)
    /\ idx' = 0
    /\ examined' = 0
    /\ pc' = "join"
    /\ UNCHANGED <<min_sent_len, rem_stop_words, common_docs, docs, alphabet,
                   common_sent_words, common_idx, doc_idx>>

\* lines 64-77: one iteration of the while loop
JoinStep ==
    /\ pc = "join" /\ idx < sent_count - 1
    /\ LET d == docs[doc_idx + 1]
           sents == doc_sents[d]
           sent1 == sents[idx + 1]
           sent2 == sents[idx + 2]
           merged == MergeEligible(sent1, sent2, sents, min_sent_len)
       IN  /\ IF merged
              THEN /\ vocab' = [vocab EXCEPT ![d] = VocabAfterJoin(vocab[d], sent1, sent2)]
                   /\ doc_sents' = [doc_sents EXCEPT ![d] = SentsAfterJoin(sents, sent1, sent2)]
                   /\ sent_count' = sent_count - 1
              ELSE UNCHANGED <<vocab, doc_sents, sent_count>>
           /\ idx' = NextIdx(idx, merged)
    /\ examined' = examined + 1
    /\ UNCHANGED <<min_sent_len, rem_stop_words, common_docs, docs, alphabet, budget,
                   parsed, common_sent_words, built, pc, common_idx, doc_idx>>

\* line 64 false: _join_small_sentences returns, the for loop advances
JoinReturn ==
    /\ pc = "join" /\ ~(idx < sent_count - 1)
    /\ pc' = "docs"
    /\ doc_idx' = doc_idx + 1
    /\ UNCHANGED <<min_sent_len, rem_stop_words, common_docs, docs, alphabet, budget,
                   parsed, doc_sents, vocab, common_sent_words, built, common_idx,
                   idx, sent_count, examined>>

\* line 36 exhausted: preprocess returns
Finish ==
    /\ pc = "docs" /\ doc_idx = Len(docs)
    /\ pc' = "done"
    /\ UNCHANGED <<min_sent_len, rem_stop_words, common_docs, docs, alphabet, budget,
                   parsed, doc_sents, vocab, common_sent_words, built, common_idx,
                   doc_idx, idx, sent_count, examined>>

Next ==
    \/ CommonTaggerRaises
    \/ PreprocessCommonDoc
    \/ CollectCommonSentWords
    \/ DocTaggerRaises
    \/ PreprocessDoc
    \/ JoinStep
    \/ JoinReturn
    \/ Finish

Spec == Init /\ [][Next]_vars

SpecCorpus == InitCorpus /\ [][Next]_vars

SpecScenario == InitScenario /\ [][Next]_vars

\* word-only texts of up to MaxLastShortTokens tokens, threshold 3
InitLastShort ==
    /\ InitWith({<<>>, <<"c1">>}, {<<"d1">>}, ScenarioKinds, MaxLastShortTokens)
    /\ min_sent_len = 3

SpecLastShort == InitLastShort /\ [][Next]_vars

\* the interpreter keeps running preprocess: a step that can be taken is taken
FairScenario == InitScenario /\ [][Next]_vars /\ WF_vars(Next)

(***************************************************************************)
(* Vocabulary of the properties                                            *)
(***************************************************************************)
SeqIndex(seq) == 1..Len(seq)

PrimaryDocs == {docs[i] : i \in SeqIndex(docs)}
ReferenceDocs == {common_docs[i] : i \in SeqIndex(common_docs)}

\* the primary documents _preprocess has returned for
Finalized == {docs[i] : i \in 1..doc_idx}

\* the documents whose construction loop has run
Constructed == {d \in DocNames : parsed[d].status = "ok"}

\* the primary document the merge pass is running on
Merging == IF pc = "join" THEN {docs[doc_idx + 1]} ELSE {}

Min(S) == CHOOSE x \in S : \A y \in S : x <= y
Max(S) == CHOOSE x \in S : \A y \in S : y <= x

WordStarts(sent) == {sent.words[k].start_char : k \in SeqIndex(sent.words)}
WordEnds(sent) == {sent.words[k].end_char : k \in SeqIndex(sent.words)}
WordTexts(sent) == {sent.words[k].text : k \in SeqIndex(sent.words)}

\* tokens of a tagged sentence that are words (not punctuation) ...
WordTokens(tagged_sent) ==
    {j \in SeqIndex(tagged_sent.tokens) :
        \E w \in SeqIndex(tagged_sent.tokens[j].words) :
            tagged_sent.tokens[j].words[w].upos # "PUNCT"}

\* ... and that also pass the stop-word filter when it is switched on
SurvivingTokens(tagged_sent) ==
    {j \in WordTokens(tagged_sent) :
        rem_stop_words => \E w \in SeqIndex(tagged_sent.tokens[j].words) :
            /\ tagged_sent.tokens[j].words[w].upos # "PUNCT"
            /\ tagged_sent.tokens[j].words[w].text \notin {"The", "the"}}

\* the tagged sentences of d that keep at least one token, in order
KeptTagged(d) ==
    SelectSeq(parsed[d].sentences, LAMBDA t : SurvivingTokens(t) # {})

\* some reference sentence has all its word texts among those of sent
ContainsReferenceSentence(sent) ==
    \E c \in ReferenceDocs : \E k \in SeqIndex(doc_sents[c]) :
        WordTexts(doc_sents[c][k]) \subseteq WordTexts(sent)

Coverage(sents) ==
    UNION {sents[k].start_char .. (sents[k].end_char - 1) : k \in SeqIndex(sents)}

NoOverlap(sents) ==
    \A i, j \in SeqIndex(sents) :
        i < j => sents[i].end_char <= sents[j].start_char

\* sentences i..j of the construction result make up sent
MadeOf(sent, bsents, i, j) ==
    /\ sent.start_char = bsents[i].start_char
    /\ sent.end_char = bsents[j].end_char
    /\ sent.words = Flatten([k \in 1..(j - i + 1) |-> bsents[i + k - 1].words])

DocSentenceCount(d, lemma) ==
    Cardinality({k \in SeqIndex(doc_sents[d]) :
        ~doc_sents[d][k].common /\ BagIn(lemma, doc_sents[d][k].bow)})

(***************************************************************************)
(* C1: in every document the vocabulary count of every lemma equals the    *)
(* number of non-common sentences whose bag-of-words contains the lemma;   *)
(* this holds once the sentences are built and throughout and after the    *)
(* merge pass.                                                             *)
(***************************************************************************)
C1_VocabularyConsistency ==
    \A d \in DocNames : \A l \in Lemmas \cup DOMAIN vocab[d] :
        VocabGet(vocab[d], l) = DocSentenceCount(d, l)

\* a finished run in which a merge lowered a vocabulary count and a common
\* sentence stayed out of the vocabulary
C1_Witness ==
    /\ pc = "done"
    /\ \E l \in Lemmas : VocabGet(vocab["d1"], l) < VocabGet(built["d1"].vocab, l)
    /\ \E k \in SeqIndex(doc_sents["d1"]) : doc_sents["d1"][k].common

(***************************************************************************)
(* C2: a merge of the pair (s1, s2) replaces the two by one sentence       *)
(* spanning [s1.start_char, s2.end_char) whose bag is the element-wise sum *)
(* and whose words are s1's followed by s2's; the vocabulary count of each *)
(* lemma in both bags drops by one, every other count is unchanged.        *)
(***************************************************************************)
C2_MergeStep ==
    LET d == docs[doc_idx + 1]
        sents == doc_sents[d]
        s1 == sents[idx + 1]
        s2 == sents[idx + 2]
        after == doc_sents'[d]
        m == after[idx + 1]
    IN  (pc = "join" /\ sent_count' = sent_count - 1) =>
            /\ Len(after) = Len(sents) - 1
            /\ \A k \in 1..idx : after[k] = sents[k]
            /\ \A k \in (idx + 2)..Len(after) : after[k] = sents[k + 1]
            /\ m.start_char = s1.start_char /\ m.end_char = s2.end_char
            /\ \A l \in Lemmas : CopiesIn(l, m.bow) = CopiesIn(l, s1.bow) + CopiesIn(l, s2.bow)
            /\ BagToSet(m.bow) \subseteq Lemmas
            /\ Len(m.words) = Len(s1.words) + Len(s2.words)
            /\ \A k \in SeqIndex(s1.words) : m.words[k] = s1.words[k]
            /\ \A k \in SeqIndex(s2.words) : m.words[Len(s1.words) + k] = s2.words[k]
            /\ \A l \in Lemmas \cup DOMAIN vocab[d] \cup DOMAIN vocab'[d] :
                VocabGet(vocab'[d], l) =
                    IF BagIn(l, s1.bow) /\ BagIn(l, s2.bow)
                    THEN VocabGet(vocab[d], l) - 1 ELSE VocabGet(vocab[d], l)

C2_MergeConservation == [][C2_MergeStep]_vars

\* a merge has just acted on two sentences sharing a lemma and having
\* different bags
C2_Witness ==
    /\ pc = "join" /\ idx > 0 /\ sent_count < Len(built["d1"].sents)
    /\ \E l \in Lemmas : VocabGet(vocab["d1"], l) < VocabGet(built["d1"].vocab, l)
    /\ \E k \in SeqIndex(doc_sents["d1"]) :
        Cardinality(BagToSet(doc_sents["d1"][k].bow)) = 2

(***************************************************************************)
(* C3: in a finalized primary document every sentence, merged ones         *)
(* included, is common if and only if some reference sentence has all its  *)
(* word texts among the sentence's word texts.                             *)
(***************************************************************************)
C3_CommonIffContainsEverySentence ==
    \A d \in Finalized : \A k \in SeqIndex(doc_sents[d]) :
        doc_sents[d][k].common <=> ContainsReferenceSentence(doc_sents[d][k])

(***************************************************************************)
(* C3 as amended: every sentence built by _preprocess for a primary        *)
(* document is common if and only if it contains the word texts of some    *)
(* reference sentence, and keeps its flag to the end if it is not merged;  *)
(* a sentence produced by a merge is never common, whatever it contains.   *)
(* So common implies containment for every sentence of the document.       *)
(***************************************************************************)
C3_CommonIffContainsWhenBuilt ==
    \A d \in (Finalized \cup Merging) \cap PrimaryDocs :
        /\ \A k \in SeqIndex(built[d].sents) :
            built[d].sents[k].common <=> ContainsReferenceSentence(built[d].sents[k])
        /\ \A k \in SeqIndex(doc_sents[d]) :
            LET sent == doc_sents[d][k]
                fresh == \A b \in SeqIndex(built[d].sents) : built[d].sents[b] # sent
            IN  /\ fresh => ~sent.common
                /\ sent.common => ContainsReferenceSentence(sent)

\* a finalized document holding a common sentence and a sentence produced
\* by a merge
C3_Witness ==
    /\ pc = "done"
    /\ \E k \in SeqIndex(doc_sents["d1"]) : doc_sents["d1"][k].common
    /\ \E k \in SeqIndex(doc_sents["d1"]) :
        \A b \in SeqIndex(built["d1"].sents) : built["d1"].sents[b] # doc_sents["d1"][k]

(***************************************************************************)
(* C4: every sentence starts at the smallest start_char of its words and   *)
(* ends at the largest end_char of its words.                              *)
(***************************************************************************)
C4_SpanIsSpanOfWords ==
    \A d \in DocNames : \A k \in SeqIndex(doc_sents[d]) :
        LET sent == doc_sents[d][k]
        IN  /\ sent.start_char = Min(WordStarts(sent))
            /\ sent.end_char = Max(WordEnds(sent))

(***************************************************************************)
(* C4 as amended: a sentence built by _preprocess starts at the start_char *)
(* of the first token of its tagged sentence and ends at the end_char of   *)
(* the last token, punctuation and stop words included; a merged sentence  *)
(* starts where its first constituent starts and ends where its last       *)
(* constituent ends.  Hence start_char <= every word's start_char and      *)
(* end_char >= every word's end_char, with equality exactly when the first *)
(* (last) token of the tagged sentence is not punctuation.                 *)
(***************************************************************************)
C4_SpanIsSpanOfTokens ==
    \A d \in Constructed :
        /\ Len(built[d].sents) = Len(KeptTagged(d))
        /\ \A k \in SeqIndex(built[d].sents) :
            LET sent == built[d].sents[k]
                toks == KeptTagged(d)[k].tokens
            IN  /\ sent.start_char = toks[1].start_char
                /\ sent.end_char = toks[Len(toks)].end_char
                /\ (sent.start_char = Min(WordStarts(sent))) <=> (1 \in WordTokens(KeptTagged(d)[k]))
                /\ (sent.end_char = Max(WordEnds(sent))) <=> (Len(toks) \in WordTokens(KeptTagged(d)[k]))
        /\ \A k \in SeqIndex(doc_sents[d]) :
            LET sent == doc_sents[d][k]
            IN  /\ \E i, j \in SeqIndex(built[d].sents) :
                    i <= j /\ MadeOf(sent, built[d].sents, i, j)
                /\ sent.start_char <= Min(WordStarts(sent))
                /\ sent.end_char >= Max(WordEnds(sent))

\* a finished run with a merged sentence whose tagged sentences begin and
\* end with punctuation
C4_Witness ==
    /\ pc = "done"
    /\ Len(doc_sents["d1"]) < Len(built["d1"].sents)
    /\ \E k \in SeqIndex(doc_sents["d1"]) :
        /\ doc_sents["d1"][k].start_char < Min(WordStarts(doc_sents["d1"][k]))
        /\ doc_sents["d1"][k].end_char > Max(WordEnds(doc_sents["d1"][k]))

(***************************************************************************)
(* C5: in every sentence all bag counts are positive and their sum equals  *)
(* the number of words attached to the sentence.                           *)
(***************************************************************************)
C5_BagSumIsWordCount ==
    \A d \in DocNames : \A k \in SeqIndex(doc_sents[d]) :
        LET sent == doc_sents[d][k]
        IN  /\ \A l \in DOMAIN sent.bow : sent.bow[l] > 0
            /\ BagCardinality(sent.bow) = Len(sent.words)

(***************************************************************************)
(* C5 as amended: in every sentence all bag counts are positive and their  *)
(* sum equals the number of tokens that survive the punctuation filter     *)
(* and, when removeStopWords is set, the stop-word filter.  The attached   *)
(* words are the tokens that survive the punctuation filter alone, stop    *)
(* words included: the sum equals the number of words when removeStopWords *)
(* is unset and is at most that number when it is set.  This holds after   *)
(* construction and after merging.                                         *)
(***************************************************************************)
C5_BagSumIsSurvivorCount ==
    \A d \in Constructed :
        /\ Len(built[d].sents) = Len(KeptTagged(d))
        /\ \A k \in SeqIndex(built[d].sents) :
            LET sent == built[d].sents[k]
            IN  /\ BagCardinality(sent.bow) = Cardinality(SurvivingTokens(KeptTagged(d)[k]))
                /\ Len(sent.words) = Cardinality(WordTokens(KeptTagged(d)[k]))
        /\ \A k \in SeqIndex(doc_sents[d]) :
            LET sent == doc_sents[d][k]
            IN  /\ \A l \in DOMAIN sent.bow : sent.bow[l] > 0
                /\ BagCardinality(sent.bow) > 0
                /\ BagCardinality(sent.bow) <= Len(sent.words)
                /\ ~rem_stop_words => BagCardinality(sent.bow) = Len(sent.words)
                /\ \E i, j \in SeqIndex(built[d].sents) :
                    /\ i <= j /\ MadeOf(sent, built[d].sents, i, j)
                    /\ \A l \in Lemmas :
                        CopiesIn(l, sent.bow) =
                            BagCardinality([b \in i..j |-> CopiesIn(l, built[d].sents[b].bow) + 1])
                            - (j - i + 1)

\* a finished run, stop words removed, with a merged sentence that has more
\* words than its bag counts
C5_Witness ==
    /\ pc = "done" /\ rem_stop_words
    /\ Len(doc_sents["d1"]) < Len(built["d1"].sents)
    /\ \E k \in SeqIndex(doc_sents["d1"]) :
        /\ BagCardinality(doc_sents["d1"][k].bow) < Len(doc_sents["d1"][k].words)
        /\ \A b \in SeqIndex(built["d1"].sents) : built["d1"].sents[b] # doc_sents["d1"][k]

(***************************************************************************)
(* C6: the merge pass neither gains nor loses character coverage, and no   *)
(* two sentences overlap afterwards.                                       *)
(***************************************************************************)
C6_CoverageUnchanged ==
    \A d \in Finalized :
        /\ Coverage(doc_sents[d]) = Coverage(built[d].sents)
        /\ NoOverlap(doc_sents[d])

(***************************************************************************)
(* C6 as amended: the merge pass loses no character coverage and no two    *)
(* sentences overlap afterwards; a merged sentence also covers the         *)
(* characters between its constituents, so the positions gained are        *)
(* exactly the gaps between pre-merge sentences joined into one sentence.  *)
(***************************************************************************)
C6_CoverageKeptGapsGained ==
    \A d \in Finalized \cup Merging :
        LET before == built[d].sents
            after == doc_sents[d]
            joined(i) == \E k \in SeqIndex(after) :
                            /\ after[k].start_char <= before[i].start_char
                            /\ before[i + 1].end_char <= after[k].end_char
            gaps == UNION {before[i].end_char .. (before[i + 1].start_char - 1) :
                            i \in {x \in 1..(Len(before) - 1) : joined(x)}}
        IN  /\ Coverage(before) \subseteq Coverage(after)
            /\ Coverage(after) \ Coverage(before) = gaps
            /\ NoOverlap(after)
            /\ \A k \in SeqIndex(after) : after[k].start_char < after[k].end_char

\* a finalized document in which a merge has covered a gap
C6_Witness ==
    /\ pc = "done"
    /\ Len(doc_sents["d1"]) = 2 /\ Len(built["d1"].sents) = 3
    /\ Coverage(doc_sents["d1"]) # Coverage(built["d1"].sents)

(***************************************************************************)
(* C7: when the tagger call fails for one primary document the failure is  *)
(* caught and every other primary document is still preprocessed: once     *)
(* preprocess has stopped, with all reference documents tagged, it has     *)
(* returned normally and every primary document has been given to the      *)
(* tagger, and those the tagger accepted have their sentences built.       *)
(***************************************************************************)
C7_FailureIsolation ==
    (pc \in {"done", "raised"} /\ \A c \in ReferenceDocs : parsed[c].status = "ok") =>
        /\ pc = "done"
        /\ \A d \in PrimaryDocs : parsed[d].status \in {"ok", "raised"}

(***************************************************************************)
(* C8: every reference document is preprocessed, and the reference word    *)
(* lists are computed from all of them, before the first primary document  *)
(* is tagged; reference documents are built with an empty reference list   *)
(* (no sentence of theirs is common) and without the merge pass; neither   *)
(* they nor the reference word lists change while primary documents are    *)
(* processed.                                                              *)
(***************************************************************************)
RECURSIVE ReferenceSentsBefore(_)
ReferenceSentsBefore(i) ==
    IF i <= 1 THEN 0
    ELSE ReferenceSentsBefore(i - 1) + Len(doc_sents[common_docs[i - 1]])

C8_Barrier ==
    /\ \A c \in ReferenceDocs \cap Constructed :
        /\ doc_sents[c] = built[c].sents
        /\ Len(doc_sents[c]) = Len(KeptTagged(c))
        /\ \A k \in SeqIndex(doc_sents[c]) : ~doc_sents[c][k].common
    /\ (pc = "common") => \A d \in PrimaryDocs :
            parsed[d].status = "none" /\ doc_sents[d] = <<>> /\ vocab[d] = EmptyVocab
    /\ (pc \in {"docs", "join", "done"}
            \/ \E d \in PrimaryDocs : parsed[d].status # "none" \/ doc_sents[d] # <<>>) =>
        /\ pc # "common"
        /\ \A c \in ReferenceDocs : parsed[c].status = "ok"
        /\ Len(common_sent_words) = ReferenceSentsBefore(Len(common_docs) + 1)
        /\ \A i \in SeqIndex(common_docs) : \A k \in SeqIndex(doc_sents[common_docs[i]]) :
            common_sent_words[ReferenceSentsBefore(i) + k] = doc_sents[common_docs[i]][k].words

C8_Frozen ==
    (pc \in {"docs", "join"}) =>
        /\ common_sent_words' = common_sent_words
        /\ \A c \in ReferenceDocs :
            doc_sents'[c] = doc_sents[c] /\ vocab'[c] = vocab[c] /\ parsed'[c] = parsed[c]

C8_OrderingBarrier == [][C8_Barrier /\ C8_Barrier' /\ C8_Frozen]_vars

\* a finished run with two non-empty reference documents in which a primary
\* sentence is common because of the second reference document alone
C8_Witness ==
    /\ pc = "done"
    /\ doc_sents["c1"] # <<>> /\ doc_sents["c2"] # <<>>
    /\ \E k \in SeqIndex(doc_sents["d1"]) :
        /\ doc_sents["d1"][k].common
        /\ \A r \in SeqIndex(doc_sents["c1"]) :
            ~(WordTexts(doc_sents["c1"][r]) \subseteq WordTexts(doc_sents["d1"][k]))

(***************************************************************************)
(* C9: a tagged sentence all of whose tokens are filtered out creates no   *)
(* Sentence and changes no vocabulary count; a document whose tagger       *)
(* output has no sentence (or none that keeps a token) ends with no        *)
(* Sentence and an empty vocabulary, and the merge pass on it examines     *)
(* nothing and returns.                                                    *)
(***************************************************************************)
TaggedWithLemma(d, lemma) ==
    {k \in SeqIndex(parsed[d].sentences) :
        \E j \in SurvivingTokens(parsed[d].sentences[k]) :
            \E w \in SeqIndex(parsed[d].sentences[k].tokens[j].words) :
                parsed[d].sentences[k].tokens[j].words[w].lemma = lemma}

C9_FilteredSentencesLeaveNoTrace ==
    /\ \A d \in Constructed :
        LET kept == {k \in SeqIndex(parsed[d].sentences) :
                        SurvivingTokens(parsed[d].sentences[k]) # {}}
        IN  /\ Len(built[d].sents) = Cardinality(kept)
            /\ \A l \in Lemmas \cup DOMAIN built[d].vocab :
                /\ VocabGet(built[d].vocab, l) <= Cardinality(TaggedWithLemma(d, l))
                /\ d \in ReferenceDocs =>
                    VocabGet(built[d].vocab, l) = Cardinality(TaggedWithLemma(d, l))
            /\ \A k \in SeqIndex(doc_sents[d]) : doc_sents[d][k].bow # EmptyBag
            /\ kept = {} =>
                /\ doc_sents[d] = <<>> /\ vocab[d] = EmptyVocab /\ built[d] = NoDoc
                /\ d \in Merging => (sent_count = 0 /\ idx = 0 /\ ENABLED JoinReturn)
    /\ pc = "raised" => \E d \in DocNames : parsed[d].status = "raised"

\* a finished run on a document with a sentence that keeps a token and a
\* sentence that keeps none
C9_Witness ==
    /\ pc = "done"
    /\ doc_sents["d1"] # <<>>
    /\ Len(doc_sents["d1"]) = Len(built["d1"].sents)
    /\ Len(built["d1"].sents) < Len(parsed["d1"].sentences)

(***************************************************************************)
(* C10: a primary document of three non-common sentences with word counts  *)
(* 1, 1, 5 and minSentenceLength 3 ends with exactly two sentences: the    *)
(* first two merged into one, the third as it was built.                   *)
(***************************************************************************)
C10_Case ==
    /\ "d1" \in Finalized
    /\ min_sent_len = 3
    /\ Len(built["d1"].sents) = 3
    /\ \A k \in 1..3 : ~built["d1"].sents[k].common
    /\ [k \in 1..3 |-> BagCardinality(built["d1"].sents[k].bow)] = <<1, 1, 5>>

C10_OneOneFiveScenario ==
    C10_Case =>
        /\ Len(doc_sents["d1"]) = 2
        /\ MadeOf(doc_sents["d1"][1], built["d1"].sents, 1, 2)
        /\ BagCardinality(doc_sents["d1"][1].bow) = 2
        /\ doc_sents["d1"][2] = built["d1"].sents[3]

\* the scenario has run to the end
C10_Witness == C10_Case /\ pc = "done" /\ Len(doc_sents["d1"]) = 2

(***************************************************************************)
(* C11: an examined pair (s1, s2) is merged if and only if neither is      *)
(* common and (s1's word count is below the threshold, or s2 is the last   *)
(* sentence and its word count is below the threshold); so a common        *)
(* sentence is never removed or changed, and a sentence at or above the    *)
(* threshold whose right neighbour is not a short last sentence is left    *)
(* untouched.  The last part, as stated: every sentence built at or above  *)
(* the threshold, with a right neighbour that is not a short last          *)
(* sentence, is still in the document when the merge pass has ended.       *)
(***************************************************************************)
WordCount(sent) == BagCardinality(sent.bow)

C11_LongSentenceUntouched ==
    \A d \in Finalized :
        LET b == built[d].sents
        IN  \A k \in 1..(Len(b) - 1) :
                (/\ WordCount(b[k]) >= min_sent_len
                 /\ ~(k + 1 = Len(b) /\ WordCount(b[k + 1]) < min_sent_len))
                => \E n \in SeqIndex(doc_sents[d]) : doc_sents[d][n] = b[k]

(***************************************************************************)
(* C11 as amended: an examined pair (s1, s2) is merged if and only if      *)
(* neither is common and (s1's word count is below the threshold, or s2 is *)
(* the last sentence and its word count is below the threshold); a step    *)
(* that does not merge changes nothing, a merge removes s1 and s2 only, so *)
(* a common sentence is never removed or changed.  A sentence at or above  *)
(* the threshold is left untouched by the pair in which it is the left     *)
(* member unless the right member is a short last sentence; it is still    *)
(* merged as the right member of a pair whose left member is below the     *)
(* threshold.  Word counts 5, 5, 1 with threshold 3 end as two sentences:  *)
(* the first as built, the second made of the second and third.            *)
(***************************************************************************)
C11_PairStep ==
    LET d == docs[doc_idx + 1]
        sents == doc_sents[d]
        after == doc_sents'[d]
        s1 == sents[idx + 1]
        s2 == sents[idx + 2]
        short(x) == WordCount(x) < min_sent_len
        eligible == /\ ~s1.common /\ ~s2.common
                    /\ (short(s1) \/ (idx + 2 = Len(sents) /\ short(s2)))
        merged == Len(after) = Len(sents) - 1
    IN  (pc = "join" /\ examined' = examined + 1) =>
            /\ merged <=> eligible
            /\ ~merged => (doc_sents' = doc_sents /\ vocab' = vocab /\ sent_count' = sent_count)
            /\ \A k \in SeqIndex(sents) :
                (sents[k].common \/ k \notin {idx + 1, idx + 2})
                    => \E n \in SeqIndex(after) : after[n] = sents[k]
            /\ (~short(s1) /\ ~(idx + 2 = Len(sents) /\ short(s2)))
                    => \E n \in SeqIndex(after) : after[n] = s1
            /\ (short(s1) /\ ~s1.common /\ ~s2.common)
                    => \A n \in SeqIndex(after) : after[n] # s2

C11_FiveFiveOneCase ==
    /\ "d1" \in Finalized
    /\ min_sent_len = 3
    /\ Len(built["d1"].sents) = 3
    /\ \A k \in 1..3 : ~built["d1"].sents[k].common
    /\ [k \in 1..3 |-> WordCount(built["d1"].sents[k])] = <<5, 5, 1>>

C11_FiveFiveOne ==
    C11_FiveFiveOneCase =>
        /\ Len(doc_sents["d1"]) = 2
        /\ doc_sents["d1"][1] = built["d1"].sents[1]
        /\ MadeOf(doc_sents["d1"][2], built["d1"].sents, 2, 3)
        /\ WordCount(doc_sents["d1"][2]) = 6

C11_MergeEligibility == [][C11_PairStep /\ C11_FiveFiveOne']_vars

\* the 5, 5, 1 document has run to the end
C11_Witness == C11_FiveFiveOneCase /\ pc = "done" /\ Len(doc_sents["d1"]) = 2

(***************************************************************************)
(* C12: after a merge at index i the scan continues from the same index,   *)
(* so that a merged sentence still below the threshold is joined with its  *)
(* right neighbour.  As a final result: when the merge pass has ended, no  *)
(* sentence produced by a merge is below the threshold and followed by a   *)
(* non-common sentence.                                                    *)
(***************************************************************************)
Fresh(d, sent) == \A b \in SeqIndex(built[d].sents) : built[d].sents[b] # sent

C12_ShortMergedSentenceJoinedOn ==
    \A d \in Finalized : \A n \in 1..(Len(doc_sents[d]) - 1) :
        ~(/\ Fresh(d, doc_sents[d][n])
          /\ WordCount(doc_sents[d][n]) < min_sent_len
          /\ ~doc_sents[d][n + 1].common)

(***************************************************************************)
(* C12 as amended: when the pair at index i is merged the remaining-       *)
(* sentence count is decremented and idx is incremented all the same       *)
(* (line 77), so the merged sentence, now at index i, lies left of the     *)
(* next pair examined, which is made of the two sentences that followed    *)
(* the merged pair.  A merged sentence is never examined again: it stays   *)
(* as it is even when it is below the threshold, and every sentence of the *)
(* final document is a built sentence or the join of exactly two adjacent  *)
(* built sentences.                                                        *)
(***************************************************************************)
C12_SweepStep ==
    LET d == docs[doc_idx + 1]
        sents == doc_sents[d]
        after == doc_sents'[d]
    IN  (pc = "join" /\ examined' = examined + 1) =>
            /\ idx' = idx + 1
            /\ \A k \in 1..idx : after[k] = sents[k]
            /\ (Len(after) # Len(sents)) =>
                /\ sent_count' = sent_count - 1
                /\ Len(after) = Len(sents) - 1
                /\ MadeOf(after[idx'], sents, idx + 1, idx + 2)
                /\ \A k \in (idx' + 1)..Len(after) : after[k] = sents[k + 1]
                /\ (idx' < sent_count' - 1) =>
                    (after[idx' + 1] = sents[idx + 3] /\ after[idx' + 2] = sents[idx + 4])

C12_JoinedOnce ==
    \A d \in Finalized \cup Merging : \A n \in SeqIndex(doc_sents[d]) :
        \/ ~Fresh(d, doc_sents[d][n])
        \/ \E i \in 1..(Len(built[d].sents) - 1) :
            MadeOf(doc_sents[d][n], built[d].sents, i, i + 1)

C12_SweepSkipsMergedSentence == [][C12_SweepStep /\ C12_JoinedOnce']_vars

\* a finished run that leaves a merged sentence below the threshold in
\* front of a non-common sentence
C12_Witness ==
    /\ pc = "done"
    /\ \E n \in 1..(Len(doc_sents["d1"]) - 1) :
        /\ Fresh("d1", doc_sents["d1"][n])
        /\ WordCount(doc_sents["d1"][n]) < min_sent_len
        /\ ~doc_sents["d1"][n + 1].common

(***************************************************************************)
(* C13: the merge pass on a document of N built sentences terminates, and  *)
(* its loop body runs at most N - 1 times, whatever the sentence lengths,  *)
(* common flags and threshold.                                             *)
(***************************************************************************)
C13_Bound ==
    \A d \in Merging :
        LET n == Len(built[d].sents)
        IN  /\ examined = idx
            /\ sent_count = Len(doc_sents[d])
            /\ n - sent_count <= examined
            /\ examined <= (IF n = 0 THEN 0 ELSE n - 1)

C13_Termination == [](C13_Bound) /\ ((pc = "join") ~> (pc # "join"))

\* a merge pass that ran its loop body N - 1 = 3 times has returned
C13_Witness ==
    /\ pc = "done"
    /\ Len(built["d1"].sents) = 4
    /\ examined = 3

====
